---- MODULE Spec2Model ----
(***************************************************************************)
(* Model of the Gulf water-quality analysis service: the Flask job-control *)
(* surface of web_server.py (analyze, get_status, the shared               *)
(* analysis_state record and the run_analysis background thread) and the   *)
(* pipeline stages of main.py (search, fetch_API, filter_results,          *)
(* create_chart).                                                          *)
(*                                                                         *)
(* Granularity.  CPython runs request handlers and run_analysis threads    *)
(* interleaved at statement level.  Every read or write of the shared      *)
(* dictionary analysis_state is therefore its own step: each assignment    *)
(* inside update_analysis_status is one step, and analyze() is three steps *)
(* (guards, reset, scenario + thread start).  Computation on a thread's    *)
(* locals is folded into the preceding step.  A pipeline stage (one call   *)
(* of search, fetch_API, filter_results or create_chart) is one step.      *)
(*                                                                         *)
(* Text is modelled as sequences of one-character strings, progress        *)
(* percentages as exact fractions in lowest terms.                         *)
(***************************************************************************)
EXTENDS Integers, Sequences, FiniteSets, TLC

\* ------------------------------------------------------------------ bounds
\* accepted start requests (threads ever created) in one behaviour
MaxRuns == 2
\* accepted start requests plus retrieved candidates in one behaviour
MaxWork == 3
\* most data rows in one raw payload
MaxRows == 4
\* request handlers of the threaded server that can be in flight at once
NumHandlers == 2

\* ------------------------------------------------------ program constants
\* filter_results rejects a series with len(df) <= 3
MinRows == 3
\* find_related(scene, 20)
TopN == 20
\* _safe_tag keeps the first 80 characters
TagLen == 80
\* progress written when the run starts, after retrieval, at the end
ProgressStart == 5
ProgressFound == 15
ProgressDone == 100
\* share of the bar distributed over the candidates, and stages per candidate
ProgressSpan == 80
StageCount == 3

Min(a, b) == IF a <= b THEN a ELSE b

\* --------------------------------------------------------------------- text
BadChars == {"\\", "/", ":", "*", "?", "\"", "<", ">", "|"}
Whitespace == {" ", "\t", "\n", "\r"}
StripChars == {".", "_"}

RECURSIVE DropWhile(_, _)
DropWhile(s, C) ==
    IF s = <<>> THEN <<>>
    ELSE IF Head(s) \in C THEN DropWhile(Tail(s), C) ELSE s

\* re.sub of a character class with "+": every maximal run becomes one rep
RECURSIVE SubRuns(_, _, _)
SubRuns(s, C, rep) ==
    IF s = <<>> THEN <<>>
    ELSE IF Head(s) \in C
         THEN <<rep>> \o SubRuns(DropWhile(Tail(s), C), C, rep)
         ELSE <<Head(s)>> \o SubRuns(Tail(s), C, rep)

Reverse(s) == [k \in 1..Len(s) |-> s[Len(s) + 1 - k]]

\* str.strip(chars) / str.strip()
Strip(s, C) == Reverse(DropWhile(Reverse(DropWhile(s, C)), C))

Take(s, n) == SubSeq(s, 1, Min(n, Len(s)))

safe_tag(name) ==
    LET s1 == SubRuns(name, BadChars, "_")
        s2 == SubRuns(s1, Whitespace, "_")
        s3 == Take(Strip(s2, StripChars), TagLen)
    IN  IF s3 = <<>> THEN <<"v", "a", "l", "u", "e">> ELSE s3

\* ------------------------------------------------------------- environment
\* values_filtered.json: the characteristic names of the catalog
Catalog == << <<"p", "H">>, <<"N", " ", "/", "L">>, <<"N", "/", " ", "L">> >>
Names == {Catalog[k] : k \in 1..Len(Catalog)}
Tags == {safe_tag(n) : n \in Names}
\* safe = _safe_tag(name), as the three stages compute it for a catalog name
SafeTag == [n \in Names |-> safe_tag(n)]

\* the contents invalid.txt may have (absent file = no exclusions)
InvalidChoices == {{}, {Catalog[2]}, Names}

\* what the persisted directory chroma_values_store may hold when the process
\* starts: nothing, or the texts an earlier process indexed
StoredChoices == {{}, Names}

\* request bodies of POST /analyze: the "scenario" text as sent
ScenarioTexts == {<<>>, <<" ">>, <<" ", "s", " ">>}

\* --------------------------------------------------------------- fractions
RECURSIVE GCD(_, _)
GCD(a, b) == IF b = 0 THEN a ELSE GCD(b, a % b)

Frac(n, d) == LET g == GCD(n, d) IN [num |-> n \div g, den |-> d \div g]
Whole(n) == [num |-> n, den |-> 1]
FracLeq(p, q) == p.num * q.den <= q.num * p.den

\* ---------------------------------------------------------------- JobState
Msg(text, name, count, detail) ==
    [text |-> text, name |-> name, count |-> count, detail |-> detail]

InitialState ==
    [status |-> "idle",
     message |-> Msg("Ready to analyze", <<>>, 0, ""),
     progress |-> Whole(0),
     total_characteristics |-> 0,
     completed_charts |-> 0,
     current_scenario |-> <<>>,
     error_message |-> ""]

\* reset_analysis_state: one dict.update call, every field back to its default
reset_analysis_state(state) == InitialState

\* The assignments update_analysis_status(**args) performs, in its order.
\* A field is skipped when its argument was not passed (None); status and
\* message are also skipped when falsy (no call passes an empty message).
UpdateFields ==
    <<"status", "message", "progress", "total_characteristics", "completed_charts">>

Falsy(f, v) == f = "status" /\ v = ""

update_analysis_status(args) ==
    LET given == SelectSeq(UpdateFields,
                     LAMBDA f : f \in DOMAIN args /\ ~Falsy(f, args[f]))
    IN  [k \in 1..Len(given) |-> [field |-> given[k], value |-> args[given[k]]]]

\* ------------------------------------------------------------------- files
NoFile == [present |-> FALSE, cols |-> FALSE, valid |-> 0, numeric |-> 0]

\* A raw payload: whether it parses as a table with both needed columns, how
\* many rows carry both a timestamp and a value, and how many of those values
\* are numeric.  The payloads drawn have the row count of the filter's
\* threshold or more, and no or only numeric values.
Payloads ==
    {[present |-> TRUE, cols |-> FALSE, valid |-> 0, numeric |-> 0]}
    \cup UNION {{[present |-> TRUE, cols |-> TRUE, valid |-> v, numeric |-> k] :
                     k \in {0, v}} : v \in MinRows..MaxRows}

NoChart == [present |-> FALSE, points |-> 0]
NoPath == <<>>

VARIABLES
    analysis_state,   \* the process-wide JobState dictionary
    handlers,         \* request handlers of POST /analyze in flight
    runs,             \* the run_analysis threads, in order of creation
    nruns,            \* threads created so far
    response,         \* the HTTP response the last step sent, if it sent one
    raw_files,        \* ResponseData/result_<tag>.csv
    filtered_files,   \* ResponseData/filtered_result_<tag>.csv
    chart_files,      \* chart_<tag>.html
    chroma_store,     \* texts held by the persisted vector store
    index_builds,     \* Chroma.from_texts calls so far
    invalid_txt,      \* names listed in invalid.txt
    api_key           \* whether OPENAI_API_KEY is set

vars == <<analysis_state, handlers, runs, nruns, response, raw_files,
          filtered_files, chart_files, chroma_store, index_builds,
          invalid_txt, api_key>>

\* ------------------------------------------------------------------ values
NoThread ==
    [pc |-> "unstarted", scenario |-> <<>>, results_list |-> <<>>,
     total_chars |-> 0, completed |-> 0, i |-> 0,
     raw_path |-> NoPath, filtered_path |-> NoPath, upd |-> <<>>,
     searched |-> "no", fetch_log |-> <<>>]

NoResponse ==
    [kind |-> "none", code |-> 0, error |-> "", scenario |-> <<>>,
     state |-> InitialState]

ErrorResponse(text) ==
    [kind |-> "error", code |-> 400, error |-> text, scenario |-> <<>>,
     state |-> InitialState]

StartedResponse(scenario) ==
    [kind |-> "started", code |-> 200, error |-> "", scenario |-> scenario,
     state |-> InitialState]

StatusResponse(state) ==
    [kind |-> "status", code |-> 200, error |-> "", scenario |-> <<>>,
     state |-> state]

Init ==
    /\ analysis_state = InitialState
    /\ handlers = [h \in 1..NumHandlers |-> [pc |-> "idle", scenario |-> <<>>]]
    /\ runs = [r \in 1..MaxRuns |-> NoThread]
    /\ nruns = 0
    /\ response = NoResponse
    /\ raw_files = [t \in Tags |-> NoFile]
    /\ filtered_files = [t \in Tags |-> NoFile]
    /\ chart_files = [t \in Tags |-> NoChart]
    /\ chroma_store \in StoredChoices
    /\ index_builds = 0
    /\ invalid_txt \in InvalidChoices
    /\ api_key \in BOOLEAN

\* ------------------------------------------------------ progress arithmetic
\* 15 + (i * 80 / total_chars / 3)
Step1Progress(i, n) ==
    Frac(ProgressFound * StageCount * n + ProgressSpan * i, StageCount * n)
\* 15 + ((i * 80 / total_chars / 3) + (80 / total_chars / 3))
Step2Progress(i, n) ==
    Frac(ProgressFound * StageCount * n + ProgressSpan * i + ProgressSpan,
         StageCount * n)
\* 15 + ((i * 80 / total_chars / 3) + (2 * 80 / total_chars / 3))
Step3Progress(i, n) ==
    Frac(ProgressFound * StageCount * n + ProgressSpan * i + 2 * ProgressSpan,
         StageCount * n)
\* 15 + ((i + 1) * 80 / total_chars)
ChartedProgress(i, n) == Frac(ProgressFound * n + (i + 1) * ProgressSpan, n)

\* --------------------------------------------------------- request handlers
Accepted == nruns + Cardinality({h \in 1..NumHandlers : handlers[h].pc # "idle"})

\* candidates retrieved so far, over all runs
RECURSIVE Retrieved(_)
Retrieved(r) == IF r = 0 THEN 0 ELSE runs[r].total_chars + Retrieved(r - 1)

Work == Accepted + Retrieved(MaxRuns)

never_running(state) == FALSE

\* analyze, line 131
already_running(state) == state.status = "running"

any_scenario(scenario) == FALSE

\* analyze, line 137
no_scenario(scenario) == scenario = <<>>

\* analyze, lines 131-138: the two guards
AnalyzeCheck(h) ==
    /\ handlers[h].pc = "idle"
    /\ \E text \in ScenarioTexts :
         LET scenario == Strip(text, Whitespace) IN
         IF already_running(analysis_state)
         THEN /\ response' = ErrorResponse("Analysis already in progress")
              /\ UNCHANGED handlers
         ELSE IF no_scenario(scenario)
         THEN /\ response' = ErrorResponse("No scenario provided")
              /\ UNCHANGED handlers
         ELSE /\ Accepted < MaxRuns
              /\ Work < MaxWork
              /\ handlers' = [handlers EXCEPT
                                ![h] = [pc |-> "accepted", scenario |-> scenario]]
              /\ response' = NoResponse
    /\ UNCHANGED <<analysis_state, runs, nruns, raw_files, filtered_files,
                   chart_files, chroma_store, index_builds, invalid_txt, api_key>>

\* analyze, line 141
AnalyzeReset(h) ==
    /\ handlers[h].pc = "accepted"
    /\ analysis_state' = reset_analysis_state(analysis_state)
    /\ handlers' = [handlers EXCEPT ![h].pc = "reset"]
    /\ response' = NoResponse
    /\ UNCHANGED <<runs, nruns, raw_files, filtered_files, chart_files,
                   chroma_store, index_builds, invalid_txt, api_key>>

\* run_analysis, line 54: the first call a new thread makes
FirstUpdate ==
    update_analysis_status(
        [status |-> "running",
         message |-> Msg("Creating chroma value storage...", <<>>, 0, ""),
         progress |-> Whole(ProgressStart)])

\* analyze, lines 142-149: the scenario is stored, the thread is started and
\* the acceptance is returned
AnalyzeStart(h) ==
    /\ handlers[h].pc = "reset"
    /\ analysis_state' =
         [analysis_state EXCEPT !.current_scenario = handlers[h].scenario]
    /\ nruns' = nruns + 1
    /\ runs' = [runs EXCEPT ![nruns + 1] =
                  [NoThread EXCEPT !.pc = "search",
                                   !.scenario = handlers[h].scenario,
                                   !.upd = FirstUpdate]]
    /\ handlers' = [handlers EXCEPT ![h] = [pc |-> "idle", scenario |-> <<>>]]
    /\ response' = StartedResponse(handlers[h].scenario)
    /\ UNCHANGED <<raw_files, filtered_files, chart_files, chroma_store,
                   index_builds, invalid_txt, api_key>>

\* get_status: jsonify serialises the dictionary in one call
GetStatus ==
    /\ response' = StatusResponse(analysis_state)
    /\ UNCHANGED <<analysis_state, handlers, runs, nruns, raw_files,
                   filtered_files, chart_files, chroma_store, index_builds,
                   invalid_txt, api_key>>

\* ---------------------------------------------------------- run_analysis
Active(t) == t.pc \notin {"unstarted", "done"}

\* update_analysis_status, lines 40-49: the next pending assignment
WriteField(r) ==
    LET t == runs[r]
        w == Head(t.upd)
        rest == Tail(t.upd)
    IN  /\ Len(t.upd) > 0
        /\ analysis_state' = [analysis_state EXCEPT ![w.field] = w.value]
        /\ runs' = [runs EXCEPT
                      ![r].upd = rest,
                      ![r].pc = IF Len(rest) = 0 /\ t.pc \in {"ending", "failing"}
                                THEN "done" ELSE t.pc]
        /\ response' = NoResponse
        /\ UNCHANGED <<handlers, nruns, raw_files, filtered_files, chart_files,
                       chroma_store, index_builds, invalid_txt, api_key>>

\* The head of the for loop at index i2 with completed = c2 (lines 68-74), or
\* the final update once the list is exhausted (lines 108-112).  `before` are
\* assignments of an earlier call still to be performed.  raw_path and
\* filtered_path are dead at the loop head (each is assigned before it is
\* read), so they are cleared.
NextIter(t, i2, c2, before) ==
    IF i2 < t.total_chars
    THEN [t EXCEPT
            !.i = i2, !.completed = c2, !.pc = "fetch",
            !.raw_path = NoPath, !.filtered_path = NoPath,
            !.upd = before \o update_analysis_status(
                [message |-> Msg("STEP 1: Fetching data for",
                                 t.results_list[i2 + 1], 0, ""),
                 progress |-> Step1Progress(i2, t.total_chars)])]
    ELSE [t EXCEPT
            !.i = i2, !.completed = c2, !.pc = "ending",
            !.raw_path = NoPath, !.filtered_path = NoPath,
            !.upd = before \o update_analysis_status(
                [status |-> "completed",
                 message |-> Msg("Analysis completed! Generated", <<>>, c2, ""),
                 progress |-> Whole(ProgressDone)])]

swallow_error(t, detail) == [t EXCEPT !.pc = "failing", !.upd = <<>>]

\* lines 114-119: an exception that reaches the outer handler
Failing(t, detail) ==
    [t EXCEPT
       !.pc = "failing",
       !.upd = update_analysis_status(
           [status |-> "error",
            message |-> Msg("Analysis failed:", <<>>, 0, detail),
            progress |-> Whole(0)])]

retry_candidate(t) == NextIter(t, t.i, t.completed, <<>>)

count_skipped(t) == NextIter(t, t.i + 1, t.completed + 1, <<>>)

\* lines 77-78 and 87-88: a stage returned nothing, the loop continues
continue_loop(t) == NextIter(t, t.i + 1, t.completed, <<>>)

abort_run(t) == Failing(t, "stage error")

\* lines 104-106: a stage raised, the loop continues
except_continue(t) == NextIter(t, t.i + 1, t.completed, <<>>)

\* search raised: line 57 leaves the try block for the handler at line 114
search_raised(t, detail) == [Failing(t, detail) EXCEPT !.searched = "raised"]

\* what similarity_search(scene, k=20) may return: a ranked list of at most k
\* of the indexed texts
RankedLists(store) ==
    UNION {[1..n -> store] :
             n \in 0..Min(TopN, MaxWork - Work)}

\* main.search as called at line 57, and lines 58-66 on its return
Search(r) ==
    LET t == runs[r]
        values == SelectSeq(Catalog, LAMBDA v : v \notin invalid_txt)
        texts == {values[k] : k \in 1..Len(values)}
    IN  /\ t.pc = "search"
        /\ Len(t.upd) = 0
        /\ response' = NoResponse
        /\ \/ /\ values = <<>>
              /\ runs' = [runs EXCEPT
                   ![r] = search_raised(t, "No valid values remaining after filtering")]
              /\ UNCHANGED <<chroma_store, index_builds>>
           \/ /\ values # <<>>
              /\ ~api_key
              /\ runs' = [runs EXCEPT ![r] = search_raised(t, "OPENAI_API_KEY not set")]
              /\ UNCHANGED <<chroma_store, index_builds>>
           \/ \* the embedding or vector-store call raises
              /\ values # <<>>
              /\ api_key
              /\ runs' = [runs EXCEPT ![r] = search_raised(t, "retrieval error")]
              /\ \/ UNCHANGED <<chroma_store, index_builds>>
                 \/ /\ chroma_store' = chroma_store \cup texts
                    /\ index_builds' = index_builds + 1
           \/ /\ values # <<>>
              /\ api_key
              /\ chroma_store' = chroma_store \cup texts
              /\ index_builds' = index_builds + 1
              /\ \E results \in RankedLists(chroma_store') :
                   LET n == Len(results)
                       found == update_analysis_status(
                           [message |-> Msg("Found related characteristics",
                                            <<>>, n, ""),
                            progress |-> Whole(ProgressFound),
                            total_characteristics |-> n])
                   IN  runs' = [runs EXCEPT ![r] =
                          NextIter([t EXCEPT !.results_list = results,
                                             !.total_chars = n,
                                             !.searched = "ok"],
                                   0, 0, found)]
        /\ UNCHANGED <<analysis_state, handlers, nruns, raw_files,
                       filtered_files, chart_files, invalid_txt, api_key>>

\* main.fetch_API as called at line 76, and lines 77-84 on its return
Fetch(r) ==
    LET t == runs[r]
        name == t.results_list[t.i + 1]
        tag == SafeTag[name]
        logged == [t EXCEPT !.fetch_log = Append(@, t.i)]
    IN  /\ t.pc = "fetch"
        /\ Len(t.upd) = 0
        /\ response' = NoResponse
        /\ \/ \* requests.get raises: caught at line 104
              /\ runs' = [runs EXCEPT ![r] = except_continue(logged)]
              /\ UNCHANGED raw_files
           \/ \* status_code != 200: "" is returned, line 78 continues
              /\ runs' = [runs EXCEPT ![r] = continue_loop(logged)]
              /\ UNCHANGED raw_files
           \/ \* status_code = 200: the body is written to result_<tag>.csv
              \E payload \in Payloads :
                /\ raw_files' = [raw_files EXCEPT ![tag] = payload]
                /\ runs' = [runs EXCEPT ![r] =
                     [logged EXCEPT
                        !.raw_path = tag, !.pc = "filter",
                        !.upd = update_analysis_status(
                            [message |-> Msg("STEP 2: Filtering data for",
                                             name, 0, ""),
                             progress |-> Step2Progress(t.i, t.total_chars)])]]
        /\ UNCHANGED <<analysis_state, handlers, nruns, filtered_files,
                       chart_files, chroma_store, index_builds, invalid_txt,
                       api_key>>

below_threshold(rows) == rows < MinRows

\* filter_results, line 36
insufficient(rows) == rows <= MinRows

\* main.filter_results as called at line 86, and lines 87-94 on its return
Filter(r) ==
    LET t == runs[r]
        name == t.results_list[t.i + 1]
        file == raw_files[t.raw_path]
    IN  /\ t.pc = "filter"
        /\ Len(t.upd) = 0
        /\ response' = NoResponse
        /\ IF ~file.present \/ ~file.cols
           THEN \* read_csv or dropna raises before any os.remove
                /\ runs' = [runs EXCEPT ![r] = except_continue(t)]
                /\ UNCHANGED <<raw_files, filtered_files>>
           ELSE IF insufficient(file.valid)
           THEN /\ raw_files' = [raw_files EXCEPT ![t.raw_path] = NoFile]
                /\ runs' = [runs EXCEPT ![r] = continue_loop(t)]
                /\ UNCHANGED filtered_files
           ELSE /\ raw_files' = [raw_files EXCEPT ![t.raw_path] = NoFile]
                /\ filtered_files' =
                     [filtered_files EXCEPT ![SafeTag[name]] = file]
                /\ runs' = [runs EXCEPT ![r] =
                     [t EXCEPT
                        !.filtered_path = SafeTag[name], !.pc = "chart",
                        !.upd = update_analysis_status(
                            [message |-> Msg("STEP 3: Creating chart for",
                                             name, 0, ""),
                             progress |-> Step3Progress(t.i, t.total_chars)])]]
        /\ UNCHANGED <<analysis_state, handlers, nruns, chart_files,
                       chroma_store, index_builds, invalid_txt, api_key>>

\* create_chart, lines 59-112: the rows left after numeric coercion are
\* plotted and the figure is written, however many rows are left
rendered(file) == [present |-> TRUE, points |-> file.numeric]

\* lines 97-102 after create_chart returned
Charted(t) ==
    NextIter(t, t.i + 1, t.completed + 1,
             update_analysis_status(
                 [completed_charts |-> t.completed + 1,
                  progress |-> ChartedProgress(t.i, t.total_chars)]))

\* main.create_chart as called at line 96, and lines 97-102 on its return
Chart(r) ==
    LET t == runs[r]
        name == t.results_list[t.i + 1]
        file == filtered_files[t.filtered_path]
    IN  /\ t.pc = "chart"
        /\ Len(t.upd) = 0
        /\ response' = NoResponse
        /\ \/ \* to_datetime or the renderer raises: caught at line 104
              /\ file.present
              /\ runs' = [runs EXCEPT ![r] = except_continue(t)]
              /\ UNCHANGED chart_files
           \/ /\ IF ~file.present
                 THEN \* lines 54-56: returns without a chart
                      UNCHANGED chart_files
                 ELSE chart_files' =
                        [chart_files EXCEPT ![SafeTag[name]] = rendered(file)]
              /\ runs' = [runs EXCEPT ![r] = Charted(t)]
        /\ UNCHANGED <<analysis_state, handlers, nruns, raw_files,
                       filtered_files, chroma_store, index_builds, invalid_txt,
                       api_key>>

\* ------------------------------------------------------------ specification
Next ==
    \/ \E h \in 1..NumHandlers : AnalyzeCheck(h)
    \/ \E h \in 1..NumHandlers : AnalyzeReset(h)
    \/ \E h \in 1..NumHandlers : AnalyzeStart(h)
    \/ GetStatus
    \/ \E r \in 1..MaxRuns : WriteField(r)
    \/ \E r \in 1..MaxRuns : Search(r)
    \/ \E r \in 1..MaxRuns : Fetch(r)
    \/ \E r \in 1..MaxRuns : Filter(r)
    \/ \E r \in 1..MaxRuns : Chart(r)

Spec == Init /\ [][Next]_vars

\* Scheduling: while a request handler is past its guards or a started thread
\* has statements left, one of them is eventually run; every stage call
\* returns or raises.  Nothing obliges a client to send a request.
Scheduled ==
    \/ \E h \in 1..NumHandlers : AnalyzeReset(h) \/ AnalyzeStart(h)
    \/ \E r \in 1..MaxRuns :
         WriteField(r) \/ Search(r) \/ Fetch(r) \/ Filter(r) \/ Chart(r)

Fairness == WF_vars(Scheduled)

FairSpec == Spec /\ Fairness

\* ------------------------------------------------------------------ claims
RunIds == 1..MaxRuns
HandlerIds == 1..NumHandlers

\* run r performs the last assignment of its final update
Ends(r) == runs[r].pc # "done" /\ runs'[r].pc = "done"

\* C1: at most one run_analysis thread is active at any time; a start
\* request made while an accepted run has not finished is never accepted.
C1_AtMostOneActive ==
    Cardinality({r \in RunIds : Active(runs[r])}) <= 1

\* C2: a start request that finds status "running" is answered with the
\* already-in-progress error, starts no thread and changes no field of the
\* job state; the threads in flight are left as they are.
C2_RejectedWhileRunning ==
    [][\A h \in HandlerIds :
         (AnalyzeCheck(h) /\ analysis_state.status = "running")
         => /\ response'.kind = "error"
            /\ response'.code = 400
            /\ response'.error = "Analysis already in progress"
            /\ analysis_state' = analysis_state
            /\ handlers' = handlers
            /\ runs' = runs
            /\ nruns' = nruns]_vars

C2_Witness ==
    /\ response.kind = "error"
    /\ response.error = "Analysis already in progress"
    /\ analysis_state.status = "running"
    /\ \E r \in RunIds : Active(runs[r])

\* C3: within a single run, until the status becomes completed or error,
\* every value written to progress is at least the value it replaces.
C3_ProgressMonotone ==
    [][\A r \in RunIds :
         (/\ WriteField(r)
          /\ nruns = 1
          /\ Head(runs[r].upd).field = "progress"
          /\ analysis_state.status \notin {"completed", "error"})
         => FracLeq(analysis_state.progress, analysis_state'.progress)]_vars

\* C4: once a start request has been answered as accepted, no status query
\* returns status "idle" while that run has not finished.
C4_NoIdleAfterAccept ==
    (response.kind = "status" /\ \E r \in RunIds : Active(runs[r]))
    => response.state.status # "idle"

\* C5: when search returned, the run ends with status "completed" and
\* progress exactly 100 in the job state.
C5_EndsCompleted ==
    [][\A r \in RunIds :
         (Ends(r) /\ runs[r].searched = "ok")
         => /\ analysis_state'.status = "completed"
            /\ analysis_state'.progress = Whole(ProgressDone)]_vars

\* C6: when search raised, the run ends with status "error" and the
\* exception text in the message, and has fetched no candidate.
C6_EndsError ==
    [][\A r \in RunIds :
         (Ends(r) /\ runs[r].searched = "raised")
         => /\ analysis_state'.status = "error"
            /\ analysis_state'.message.text = "Analysis failed:"
            /\ analysis_state'.message.detail # ""
            /\ runs'[r].fetch_log = <<>>]_vars

\* C7: a stage of one candidate that fails (returns nothing or raises) only
\* skips that candidate: the run goes on to the next candidate, or to its
\* final "completed" update after the last one, and never to the error
\* handler.
C7_StageFailureSkips ==
    [][\A r \in RunIds :
         LET t == runs[r]
             t2 == runs'[r]
         IN  (Fetch(r) \/ Filter(r) \/ Chart(r))
             => /\ t2.searched = "ok"
                /\ t2.pc # "failing"
                /\ \A k \in 1..Len(t2.upd) :
                     t2.upd[k].field = "status" => t2.upd[k].value = "completed"
                /\ (t2.i = t.i + 1 /\ t2.completed = t.completed)
                   => IF t2.i < t.total_chars
                      THEN t2.pc = "fetch"
                      ELSE t2.pc = "ending"]_vars

C7_Witness ==
    \E r \in RunIds :
      /\ runs[r].pc = "done"
      /\ runs[r].searched = "ok"
      /\ runs[r].fetch_log = <<0, 1>>
      /\ runs[r].completed = 1
      /\ nruns = 1
      /\ analysis_state.status = "completed"

C9_FinalCounts ==
    [][\A r \in RunIds :
         (Ends(r) /\ runs[r].searched = "ok")
         => /\ analysis_state'.total_characteristics = Len(runs[r].results_list)
            /\ analysis_state'.completed_charts = runs[r].completed]_vars

\* C10: every chart file written comes from a series with at least one row
\* left after numeric coercion.
C10_ChartHasRows ==
    \A tag \in Tags : chart_files[tag].present => chart_files[tag].points >= 1

Terminal == {"completed", "error"}

\* C11: filter_results persists a cleaned series only from a payload with
\* more than 3 rows that have both fields; otherwise it persists nothing, no
\* chart is written and the candidate is skipped.  No cleaned series with 3
\* rows or fewer ever exists.
C11_FilterThreshold ==
    [][/\ \A tag \in Tags :
            filtered_files'[tag].present => filtered_files'[tag].valid > MinRows
       /\ \A r \in RunIds :
            LET t == runs[r]
                t2 == runs'[r]
                file == raw_files[t.raw_path]
            IN  Filter(r)
                => \/ /\ file.present /\ file.cols /\ file.valid > MinRows
                      /\ filtered_files'[t2.filtered_path] = file
                      /\ t2.pc = "chart"
                   \/ /\ ~(file.present /\ file.cols /\ file.valid > MinRows)
                      /\ filtered_files' = filtered_files
                      /\ chart_files' = chart_files
                      /\ t2.pc \in {"fetch", "ending"}
                      /\ t2.i = t.i + 1
                      /\ t2.completed = t.completed]_vars

\* the only run has just had its first candidate rejected by filter_results:
\* the raw payload is gone and nothing was persisted in its place
C11_Witness ==
    \E r \in RunIds :
      /\ nruns = 1
      /\ runs[r].fetch_log = <<0>>
      /\ runs[r].i = 1
      /\ runs[r].completed = 0
      /\ analysis_state.message.text = "STEP 2: Filtering data for"
      /\ ~raw_files[safe_tag(runs[r].results_list[1])].present
      /\ \A tag \in Tags : ~filtered_files[tag].present /\ ~chart_files[tag].present

\* C12: no run ever calls fetch_API for a name listed in invalid.txt.
C12_ExcludedNeverFetched ==
    \A r \in RunIds :
      \A k \in 1..Len(runs[r].fetch_log) :
        runs[r].results_list[runs[r].fetch_log[k] + 1] \notin invalid_txt

\* C13: under fair scheduling every started run leads to status "completed"
\* or "error".
C13_EventuallyTerminal ==
    (\E r \in RunIds : Active(runs[r])) ~> (analysis_state.status \in Terminal)

C13_Witness ==
    \E r \in RunIds :
      /\ runs[r].pc = "done"
      /\ runs[r].searched = "raised"
      /\ analysis_state.status = "error"
      /\ analysis_state.message.text = "Analysis failed:"

\* C14: while status is "completed" or "error", a step that is not part of
\* an accepted start request changes no field of the job state.
C14_TerminalFrame ==
    [][(analysis_state.status \in Terminal /\ handlers' = handlers)
       => analysis_state' = analysis_state]_vars

\* C15: when filter_results has finished, by returning or by raising, the raw
\* payload it was given no longer exists.
C15_RawDeleted ==
    [][\A r \in RunIds :
         Filter(r) => ~raw_files'[runs[r].raw_path].present]_vars

\* C16: when create_chart has finished, the cleaned series it was given no
\* longer exists.
C16_CleanedDeleted ==
    [][\A r \in RunIds :
         Chart(r) => ~filtered_files'[runs[r].filtered_path].present]_vars

\* C17: Chroma.from_texts is called at most once in the life of the process.
C17_IndexBuiltOnce == index_builds <= 1

\* C18: a chart file is written and a run's completed count is incremented
\* only by create_chart returning for a candidate whose fetch_API and
\* filter_results calls in this iteration both returned a path; a candidate
\* skipped at fetch or filter changes neither.
C18_ChartAfterSuccess ==
    [][\A r \in RunIds :
         LET t == runs[r]
             t2 == runs'[r]
         IN  /\ (t2.completed # t.completed /\ Active(t))
                => /\ Chart(r)
                   /\ t2.completed = t.completed + 1
                   /\ t.raw_path # NoPath
                   /\ t.filtered_path # NoPath
                   /\ t.fetch_log[Len(t.fetch_log)] = t.i
             /\ (Fetch(r) \/ Filter(r))
                => /\ chart_files' = chart_files
                   /\ t2.completed = t.completed
             /\ chart_files' # chart_files
                => \E q \in RunIds :
                     /\ Chart(q)
                     /\ runs[q].raw_path # NoPath
                     /\ runs[q].filtered_path # NoPath
                     /\ runs'[q].completed = runs[q].completed + 1]_vars

\* a run skipped its first candidate and charted its second
C18_Witness ==
    \E r \in RunIds :
      /\ runs[r].fetch_log = <<0, 1>>
      /\ runs[r].i = 2
      /\ runs[r].completed = 1
      /\ \E tag \in Tags : chart_files[tag].present
      /\ \A q \in RunIds : q # r => runs[q].pc = "unstarted"

\* C19: two different characteristic names handled by a run have different
\* file tags.
C19_TagsDistinct ==
    \A r \in RunIds :
      \A j, k \in 1..Len(runs[r].results_list) :
        runs[r].results_list[j] # runs[r].results_list[k]
        => safe_tag(runs[r].results_list[j]) # safe_tag(runs[r].results_list[k])

\* C20: no status response shows status "completed" with a progress other
\* than 100.
C20_NoTornCompleted ==
    (response.kind = "status" /\ response.state.status = "completed")
    => response.state.progress = Whole(ProgressDone)

\* C21: in every state completed_charts is at most total_characteristics
\* and progress lies between 0 and 100.
C21_CountsAndProgressInRange ==
    /\ analysis_state.completed_charts <= analysis_state.total_characteristics
    /\ FracLeq(Whole(0), analysis_state.progress)
    /\ FracLeq(analysis_state.progress, Whole(ProgressDone))

\* C22: a start request answered with an error starts no thread and changes
\* no field of the job state; a request that passes the guards carries a
\* scenario with a character that is not whitespace, so a request with an
\* empty or all-whitespace scenario is always answered with an error, and no
\* thread ever runs with such a scenario.
C22_EmptyScenarioRejected ==
    [][/\ \A h \in HandlerIds :
            AnalyzeCheck(h)
            => /\ response'.kind = "error"
                  => /\ response'.code = 400
                     /\ analysis_state' = analysis_state
                     /\ handlers' = handlers
                     /\ runs' = runs
                     /\ nruns' = nruns
               /\ response'.kind # "error"
                  => /\ handlers'[h].pc = "accepted"
                     /\ \E k \in 1..Len(handlers'[h].scenario) :
                          handlers'[h].scenario[k] \notin Whitespace
       /\ \A r \in RunIds :
            runs'[r].pc # "unstarted"
            => \E k \in 1..Len(runs'[r].scenario) :
                 runs'[r].scenario[k] \notin Whitespace]_vars

\* an empty scenario was rejected after a run had ended, the job state still
\* showing that run's terminal status
C22_Witness ==
    /\ response.kind = "error"
    /\ response.error = "No scenario provided"
    /\ analysis_state.status \in Terminal
    /\ \E r \in RunIds : runs[r].pc = "done"
    /\ \A r \in RunIds : ~Active(runs[r])

====
